---- MODULE Spec2Model ----
(***************************************************************************)
(* A model of Files2Clipboard.py: the directory walk and tree rendering,   *)
(* the collection of file records, the token-budgeted line splitter and    *)
(* the interactive chunk-by-chunk delivery to the clipboard.               *)
(*                                                                         *)
(* Text is a sequence of one-character strings, so that length, line       *)
(* boundaries and suffix tests are computed as Python computes them.       *)
(***************************************************************************)
EXTENDS Integers, Sequences, FiniteSets, TLC

\* ------------------------------------------------------------------ bounds
\* longest text handed to _split_text on its own
MaxLen == 9
\* largest ceiling tried (max_tokens ranges over -1 .. MaxTokens)
MaxTokens == 2
\* most entries below the scan root
MaxEntries == 3
\* the small ceiling of the runs of files_to_clipboard
RunCeiling == 6

\* ---------------------------------------------------------------- constants
\* TOKENS_PER_CHAR_EST = 0.25, kept exact as a number of hundredths
TOKENS_PER_CHAR_EST_x100 == 25

\* ------------------------------------------------------------ text helpers
\* Python's str.splitlines boundaries that the modelled texts can contain;
\* "\r\n" counts as one boundary.
LineBreaks == {"\n", "\r"}

\* "".join(parts)
RECURSIVE join(_)
join(parts) ==
    IF parts = <<>> THEN <<>> ELSE Head(parts) \o join(Tail(parts))

\* s.count(c), for a single character c
count(s, c) == Cardinality({k \in DOMAIN s : s[k] = c})

\* index of the last character of the first line of s, terminator included
RECURSIVE first_line_end(_, _)
first_line_end(s, i) ==
    IF i > Len(s) THEN Len(s)
    ELSE IF s[i] \in LineBreaks
         THEN IF s[i] = "\r" /\ i < Len(s) /\ s[i + 1] = "\n" THEN i + 1 ELSE i
         ELSE first_line_end(s, i + 1)

\* a plausible slip: keepends left at its default, the terminators are dropped
RECURSIVE splitlines_dropends(_)
splitlines_dropends(s) ==
    IF s = <<>> THEN <<>>
    ELSE LET e == first_line_end(s, 1)
             line == SelectSeq(SubSeq(s, 1, e), LAMBDA c : c \notin LineBreaks)
         IN  <<line>> \o splitlines_dropends(SubSeq(s, e + 1, Len(s)))

\* text.splitlines(keepends=True)
RECURSIVE splitlines(_)
splitlines(s) ==
    IF s = <<>> THEN <<>>
    ELSE LET e == first_line_end(s, 1)
         IN  <<SubSeq(s, 1, e)>> \o splitlines(SubSeq(s, e + 1, Len(s)))

\* _count_tokens, the fallback estimator: int(len(text) * TOKENS_PER_CHAR_EST)
count_tokens(s) == (Len(s) * TOKENS_PER_CHAR_EST_x100) \div 100

\* ------------------------------------------------------------- _split_text
\* a plausible slip: >= instead of >, a chunk is closed although the line fits
must_close_offbyone(buf, buf_tok, tok, max_tok) ==
    buf # <<>> /\ buf_tok + tok >= max_tok

\* the test that closes the accumulating chunk: buf and buf_tok + tok > max_tokens
must_close(buf, buf_tok, tok, max_tok) ==
    buf # <<>> /\ buf_tok + tok > max_tok

\* the loop over the lines and the final flush of the accumulating chunk
RECURSIVE split_loop(_, _, _, _, _)
split_loop(lines, chunks_, buf, buf_tok, max_tok) ==
    IF lines = <<>>
    THEN IF buf # <<>> THEN Append(chunks_, join(buf)) ELSE chunks_
    ELSE LET line == Head(lines)
             tok  == count_tokens(line)
         IN  IF must_close(buf, buf_tok, tok, max_tok)
             THEN split_loop(Tail(lines), Append(chunks_, join(buf)),
                             <<line>>, tok, max_tok)
             ELSE split_loop(Tail(lines), chunks_,
                             Append(buf, line), buf_tok + tok, max_tok)

split_text(s, max_tok) == split_loop(splitlines(s), <<>>, <<>>, 0, max_tok)

\* ------------------------------------------------------- TechnologyPolicy
\* A technology_filter is the sequence of its (tech, enabled) items in
\* iteration order; None and the empty dict are both the empty sequence
\* (the code only tests its truth value).

\* tech_exts.get(tech, [])
tech_exts(tech) ==
    CASE tech = "web" ->
           << <<".", "h", "t", "m", "l">>,
            <<".", "p", "h", "p">>,
            <<".", "j", "s">>,
            <<".", "j", "s", "x">>,
            <<".", "c", "s", "s">>,
            <<".", "s", "c", "s", "s">>,
            <<".", "s", "a", "s", "s">> >>
      [] tech = "react" ->
           << <<".", "j", "s">>,
            <<".", "j", "s", "x">>,
            <<".", "t", "s">>,
            <<".", "t", "s", "x">>,
            <<".", "c", "s", "s">>,
            <<".", "s", "c", "s", "s">>,
            <<".", "e", "n", "v">>,
            <<"p", "a", "c", "k", "a", "g", "e", ".", "j", "s", "o", "n">>,
            <<".", "b", "a", "b", "e", "l", "r", "c">>,
            <<".", "p", "r", "e", "t", "t", "i", "e", "r", "r", "c">> >>
      [] tech = "python" ->
           << <<".", "p", "y">> >>
      [] tech = "java" ->
           << <<".", "j", "a", "v", "a">> >>
      [] tech = "csharp" ->
           << <<".", "c", "s">> >>
      [] tech = "ruby" ->
           << <<".", "r", "b">> >>
      [] tech = "go" ->
           << <<".", "g", "o">> >>
      [] tech = "cpp" ->
           << <<".", "c", "p", "p">>,
            <<".", "h", "p", "p">>,
            <<".", "h">> >>
      [] tech = "bash" ->
           << <<".", "s", "h">> >>
      [] tech = "typescript" ->
           << <<".", "t", "s">>,
            <<".", "t", "s", "x">> >>
      [] tech = "rust" ->
           << <<".", "r", "s">>,
            <<".", "t", "o", "m", "l">>,
            <<".", "r", "l", "i", "b">>,
            <<".", "c", "a", "r", "g", "o">> >>
      [] tech = "vb" ->
           << <<".", "v", "b">> >>
      [] tech = "structured-data" ->
           << <<".", "y", "m", "l">>,
            <<".", "y", "a", "m", "l">>,
            <<".", "j", "s", "o", "n">> >>
      [] tech = "markdown" ->
           << <<".", "m", "d">>,
            <<".", "m", "a", "r", "k", "d", "o", "w", "n">> >>
      [] tech = "sql" ->
           << <<".", "s", "q", "l">>,
            <<".", "p", "s", "q", "l">>,
            <<".", "p", "g", "s", "q", "l">>,
            <<".", "d", "d", "l">>,
            <<".", "d", "m", "l">> >>
      [] tech = "terraform" ->
           << <<".", "t", "f">>,
            <<".", "t", "f", ".", "j", "s", "o", "n">>,
            <<".", "t", "f", "v", "a", "r", "s">>,
            <<".", "t", "f", "v", "a", "r", "s", ".", "j", "s", "o", "n">>,
            <<".", "h", "c", "l">>,
            <<".", "t", "f", "t", "p", "l">> >>
      [] OTHER -> <<>>

\* the baseline of directory names that are never descended into
global_ignores ==
    {<<".", "g", "i", "t">>,
     <<".", "s", "v", "n">>,
     <<".", "h", "g">>,
     <<".", "b", "z", "r">>,
     <<"_", "_", "p", "y", "c", "a", "c", "h", "e", "_", "_">>,
     <<"v", "e", "n", "v">>,
     <<".", "v", "e", "n", "v">>,
     <<"e", "n", "v">>,
     <<".", "e", "g", "g", "-", "i", "n", "f", "o">>,
     <<"n", "o", "d", "e", "_", "m", "o", "d", "u", "l", "e", "s">>,
     <<"b", "o", "w", "e", "r", "_", "c", "o", "m", "p", "o", "n", "e", "n", "t", "s">>,
     <<"d", "i", "s", "t">>,
     <<"b", "u", "i", "l", "d">>,
     <<".", "c", "a", "c", "h", "e">>,
     <<"t", "a", "r", "g", "e", "t">>,
     <<"b", "i", "n">>,
     <<"o", "b", "j">>,
     <<"p", "k", "g">>,
     <<"l", "o", "g">>,
     <<"l", "o", "g", "s">>,
     <<"t", "m", "p">>,
     <<"c", "o", "v", "e", "r", "a", "g", "e">>,
     <<".", "n", "y", "c", "_", "o", "u", "t", "p", "u", "t">>,
     <<".", "i", "d", "e", "a">>,
     <<".", "v", "s", "c", "o", "d", "e">>,
     <<".", "D", "S", "_", "S", "t", "o", "r", "e">>,
     <<"v", "e", "n", "d", "o", "r">>,
     <<".", "b", "u", "n", "d", "l", "e">>}

\* tech_specific.get(tech, set())
tech_specific(tech) ==
    CASE tech = "web" ->
           {<<"p", "u", "b", "l", "i", "c">>,
            <<"s", "t", "a", "t", "i", "c">>}
      [] tech = "react" ->
           {<<"p", "u", "b", "l", "i", "c">>,
            <<"b", "u", "i", "l", "d">>}
      [] tech = "python" ->
           {<<"d", "i", "s", "t">>}
      [] tech = "java" ->
           {<<"b", "u", "i", "l", "d">>,
            <<".", "g", "r", "a", "d", "l", "e">>}
      [] tech = "csharp" ->
           {<<".", "v", "s">>}
      [] tech = "ruby" ->
           {<<"t", "m", "p">>}
      [] tech = "go" ->
           {<<"v", "e", "n", "d", "o", "r">>}
      [] tech = "rust" ->
           {<<"t", "a", "r", "g", "e", "t">>}
      [] tech = "sql" ->
           {<<"m", "i", "g", "r", "a", "t", "i", "o", "n", "s">>,
            <<"m", "i", "g", "r", "a", "t", "i", "o", "n">>,
            <<"s", "e", "e", "d", "s">>,
            <<"s", "e", "e", "d">>,
            <<"d", "a", "t", "a", "b", "a", "s", "e">>,
            <<"d", "b">>,
            <<"s", "q", "l">>,
            <<"d", "d", "l">>,
            <<"d", "m", "l">>}
      [] tech = "terraform" ->
           {<<".", "t", "e", "r", "r", "a", "f", "o", "r", "m">>,
            <<".", "t", "e", "r", "r", "a", "f", "o", "r", "m", ".", "l", "o", "c", "k", ".", "h", "c", "l">>}
      [] OTHER -> {}

\* file_extension ".*": every extension
ALL_EXTS == <<".", "*">>

\* the extensions of the enabled technologies, in iteration order
RECURSIVE selected_exts(_)
selected_exts(technology_filter) ==
    IF technology_filter = <<>> THEN <<>>
    ELSE LET item == Head(technology_filter)
         IN  (IF item.enabled THEN tech_exts(item.tech) ELSE <<>>)
                 \o selected_exts(Tail(technology_filter))

\* _filter_by_technology: the list of allowed suffixes, or the ".*" sentinel
\* (all = TRUE).  A list never compares equal to the string ".*".
filter_by_technology(file_extension, technology_filter) ==
    LET selected == selected_exts(technology_filter)
    IN  IF technology_filter # <<>> /\ selected # <<>>
        THEN [all |-> FALSE, exts |-> selected]
        ELSE IF file_extension # ALL_EXTS
             THEN [all |-> FALSE, exts |-> <<file_extension>>]
             ELSE [all |-> TRUE, exts |-> <<>>]

\* _filter_directories: the baseline plus the sets of the enabled technologies
RECURSIVE filter_directories_loop(_, _)
filter_directories_loop(technology_filter, ignores) ==
    IF technology_filter = <<>> THEN ignores
    ELSE LET item == Head(technology_filter)
         IN  filter_directories_loop(
                 Tail(technology_filter),
                 IF item.enabled THEN ignores \cup tech_specific(item.tech)
                 ELSE ignores)

filter_directories(technology_filter) ==
    filter_directories_loop(technology_filter, global_ignores)

\* -------------------------------------------------------------- filesystem
\* A snapshot of the scanned subtree: node 0 is the scan root, entries
\* 1..n are the directories and files below it.  Every entry has a name, a
\* kind, its parent directory, and for a file its text (readable = FALSE:
\* read_text raises).  os.walk and os.listdir list a directory in the order
\* of the node numbers.
node_name(fs_, i) == IF i = 0 THEN fs_.rootName ELSE fs_.entries[i].name

children(fs_, d) ==
    SelectSeq([i \in 1..Len(fs_.entries) |-> i],
              LAMBDA i : fs_.entries[i].parent = d)

\* the dir_names and file_names that os.walk hands out for directory d
dir_names(fs_, d) ==
    SelectSeq(children(fs_, d), LAMBDA i : fs_.entries[i].kind = "dir")

file_names(fs_, d) ==
    SelectSeq(children(fs_, d), LAMBDA i : fs_.entries[i].kind = "file")

\* a plausible slip: the in-place pruning is lost (a new list is bound
\* instead of dir_names[:]), os.walk descends everywhere
prune_nothing(fs_, dirs, excludes) == dirs

\* dir_names[:] = [d for d in dir_names if d not in excludes]
prune(fs_, dirs, excludes) ==
    SelectSeq(dirs, LAMBDA d : node_name(fs_, d) \notin excludes)

\* os.walk(top), top-down, descending into what the caller left in dir_names
RECURSIVE os_walk(_, _, _)
RECURSIVE os_walk_each(_, _, _)
os_walk(fs_, top, excludes) ==
    <<top>> \o os_walk_each(fs_, prune(fs_, dir_names(fs_, top), excludes), excludes)

os_walk_each(fs_, dirs, excludes) ==
    IF dirs = <<>> THEN <<>>
    ELSE os_walk(fs_, Head(dirs), excludes)
             \o os_walk_each(fs_, Tail(dirs), excludes)

\* _walk_dirs: the root and every directory reached; os.walk yields nothing
\* (and raises nothing) for a root it cannot list
walk_dirs(fs_, excludes) ==
    IF fs_.listable THEN os_walk(fs_, 0, excludes) ELSE <<>>

\* depth of a node below the root: 0 if rel == "." else rel.count(os.sep) + 1
RECURSIVE depth(_, _)
depth(fs_, i) == IF i = 0 THEN 0 ELSE 1 + depth(fs_, fs_.entries[i].parent)

\* str(root): the resolved root path
root_path(fs_) == <<"/">> \o fs_.rootName

\* current.relative_to(root), for a directory below the root
RECURSIVE relative_to(_, _)
relative_to(fs_, i) ==
    IF fs_.entries[i].parent = 0 THEN fs_.entries[i].name
    ELSE relative_to(fs_, fs_.entries[i].parent) \o <<"/">> \o fs_.entries[i].name

\* _relative_label
relative_label(fs_, current) ==
    IF current = 0 THEN <<".", "/">>
    ELSE <<".", "/">> \o relative_to(fs_, current) \o <<"/">>

\* ----------------------------------------------------------- tree rendering
\* The box-drawing characters are written in ASCII, one character each:
\* "|" for the vertical bar, "+" for the tee, "L" for the corner, "-" for
\* the horizontal bar.
VBAR == <<"|", " ", " ", " ">>
TEE == <<"+", "-", "-", " ">>
CORNER == <<"L", "-", "-", " ">>

\* s * n
RECURSIVE repeat(_, _)
repeat(s, n) == IF n <= 0 THEN <<>> ELSE s \o repeat(s, n - 1)

\* sep.join(parts)
RECURSIVE join_sep(_, _)
join_sep(sep, parts) ==
    IF parts = <<>> THEN <<>>
    ELSE IF Len(parts) = 1 THEN Head(parts)
    ELSE Head(parts) \o sep \o join_sep(sep, Tail(parts))

\* the lines _generate_tree appends for one directory of the walk
tree_lines_of(fs_, d) ==
    LET dep    == depth(fs_, d)
        indent == repeat(VBAR, dep - 1) \o (IF dep > 0 THEN TEE ELSE <<>>)
        files  == file_names(fs_, d)
    IN  <<[node |-> d, text |-> indent \o node_name(fs_, d) \o <<"/">>]>>
        \o [k \in 1..Len(files) |->
               [node |-> files[k],
                text |-> indent
                         \o (IF k = Len(files) THEN CORNER ELSE TEE)
                         \o node_name(fs_, files[k])]]

RECURSIVE tree_lines(_, _)
tree_lines(fs_, dirs) ==
    IF dirs = <<>> THEN <<>>
    ELSE tree_lines_of(fs_, Head(dirs)) \o tree_lines(fs_, Tail(dirs))

\* _generate_tree: the lines (each with the node it lists), "\n".join(lines)
generate_tree_lines(fs_, excludes) == tree_lines(fs_, walk_dirs(fs_, excludes))

texts_of(recs) == [k \in 1..Len(recs) |-> recs[k].text]

generate_tree(fs_, excludes) ==
    join_sep(<<"\n">>, texts_of(generate_tree_lines(fs_, excludes)))

\* ------------------------------------------------------- ContentCollector
\* Path(__file__).name
script_name == <<"F", "i", "l", "e", "s", "2", "C", "l", "i", "p", "b", "o",
                 "a", "r", "d", ".", "p", "y">>

\* fname.endswith(ext)
endswith(s, suffix) ==
    /\ Len(suffix) <= Len(s)
    /\ SubSeq(s, Len(s) - Len(suffix) + 1, Len(s)) = suffix

\* str(n) for n >= 0
Digits == <<"0", "1", "2", "3", "4", "5", "6", "7", "8", "9">>

RECURSIVE str_int(_)
str_int(n) ==
    IF n < 10 THEN <<Digits[n + 1]>>
    ELSE str_int(n \div 10) \o <<Digits[(n % 10) + 1]>>

\* a plausible slip: the lines are counted with len(data.splitlines())
line_count_splitlines(data) == Len(splitlines(data))

\* data.count("\n") + 1
line_count(data) == count(data, "\n") + 1

\* passes filter 1 (not the script itself) and filter 2 (an allowed suffix)
eligible(fname, allowed_exts) ==
    /\ fname # script_name
    /\ \/ allowed_exts.all
       \/ \E k \in 1..Len(allowed_exts.exts) : endswith(fname, allowed_exts.exts[k])

\* full_path.read_text succeeds: a directory entry, or an undecodable file, raises
can_read(fs_, i) == fs_.entries[i].kind = "file" /\ fs_.entries[i].readable

\* what one iteration of the loop of _read_files_into_buffer does with entry i:
\* nothing (filtered out), a warning (unreadable), or a record appended
read_entry(fs_, i, allowed_exts, root_label) ==
    LET fname == node_name(fs_, i)
        data  == fs_.entries[i].data
        lines == line_count(data)
    IN  IF ~eligible(fname, allowed_exts) THEN <<>>
        ELSE IF ~can_read(fs_, i) THEN <<[kind |-> "warn", node |-> i]>>
        ELSE <<[kind  |-> "read", node |-> i, lines |-> lines,
                text  |-> root_label \o fname \o <<" ", "(">> \o str_int(lines)
                          \o <<" ", "l", "i", "n", "e", "s", ")", "\n">>
                          \o data \o <<"\n", "\n">>]>>

RECURSIVE read_entries(_, _, _, _)
read_entries(fs_, names, allowed_exts, root_label) ==
    IF names = <<>> THEN <<>>
    ELSE read_entry(fs_, Head(names), allowed_exts, root_label)
             \o read_entries(fs_, Tail(names), allowed_exts, root_label)

\* _read_files_into_buffer(directory, ...): the records and warnings, in
\* os.listdir order (sub-directories are listed too)
read_files_into_buffer(fs_, directory, allowed_exts, root_label) ==
    read_entries(fs_, children(fs_, directory), allowed_exts, root_label)

\* the loop over _walk_dirs of the recursive mode
RECURSIVE read_all(_, _, _)
read_all(fs_, dirs, allowed_exts) ==
    IF dirs = <<>> THEN <<>>
    ELSE read_files_into_buffer(fs_, Head(dirs), allowed_exts,
                                relative_label(fs_, Head(dirs)))
             \o read_all(fs_, Tail(dirs), allowed_exts)

\* ---------------------------------------------------------------- defaults
\* MAX_TOKENS_PER_CHUNK, the default ceiling
MAX_TOKENS_PER_CHUNK == 50000

\* CHATGPT_SPLIT_GLOBAL
CHATGPT_SPLIT_GLOBAL == FALSE

\* -------------------------------------------------------------------- state
VARIABLES
    fs,          \* the filesystem snapshot under the scan root
    args,        \* the arguments of files_to_clipboard that select files
    chatgpt_split, \* the argument chatgpt_split
    max_tokens,  \* the ceiling (argument of files_to_clipboard and _split_text)
    pc,          \* where the run stands
    exc,         \* the exception that left files_to_clipboard, or "none"
    tree,        \* tree, the rendered tree string
    listed,      \* the nodes that have a line in tree
    entered,     \* the directories os.walk has listed
    buffer,      \* buffer, the file records (node, line count, text)
    text,        \* the payload handed to the clipboard step / _split_text
    mode,        \* "split" or "whole" once _split_or_copy has chosen
    chunks,      \* chunks, the result of _split_text
    idx,         \* idx, the number of the chunk being delivered
    sink,        \* the texts pyperclip.copy has accepted, in order
    copyCalls,   \* how often pyperclip.copy was called
    copyFailed,  \* pyperclip.copy has raised
    console,     \* the messages printed so far
    acks,        \* how many acknowledgment inputs were read
    quitAt       \* the number of the first input that began with q or Q, or 0

vars == <<fs, args, chatgpt_split, max_tokens, pc, exc, tree, listed, entered, buffer, text,
          mode, chunks, idx, sink, copyCalls, copyFailed, console, acks, quitAt>>

\* ------------------------------------------------------------------- inputs
Chars == {"a", "\n", "\r"}

Texts == UNION {[1..n -> Chars] : n \in 0..MaxLen}

Ceilings == -1..MaxTokens

RootNames == {<<"p", "r", "j">>, <<"b", "u", "i", "l", "d">>}

\* "build" is in the baseline of ignored names, "db" only in the sql preset's
DirKinds ==
    {[name |-> n, kind |-> "dir", data |-> <<>>, readable |-> FALSE] :
        n \in {<<"b", "u", "i", "l", "d">>, <<"d", "b">>}}

FileKinds ==
    {[name |-> <<"a", ".", "p", "y">>, kind |-> "file",
      data |-> <<"x", "\n", "y">>, readable |-> TRUE],
     [name |-> <<"b", ".", "m", "d">>, kind |-> "file",
      data |-> <<>>, readable |-> TRUE],
     [name |-> <<"b", ".", "m", "d">>, kind |-> "file",
      data |-> <<>>, readable |-> FALSE],
     [name |-> script_name, kind |-> "file",
      data |-> <<"x", "\n">>, readable |-> TRUE]}

EntryKinds == DirKinds \cup FileKinds

\* entry i lies in the root or in an earlier directory entry; the names in one
\* directory differ
WellFormed(c) ==
    \A i \in DOMAIN c :
        /\ c[i][2] < i
        /\ c[i][2] > 0 => c[c[i][2]][1].kind = "dir"
        /\ \A j \in DOMAIN c :
               (j < i /\ c[j][2] = c[i][2]) => c[j][1].name # c[i][1].name

EntriesOf(n) ==
    {[i \in 1..n |-> [name |-> c[i][1].name, kind |-> c[i][1].kind,
                      data |-> c[i][1].data, readable |-> c[i][1].readable,
                      parent |-> c[i][2]]] :
        c \in {c \in [1..n -> EntryKinds \X (0..(n - 1))] : WellFormed(c)}}

FileSystems ==
    {[rootName |-> r, listable |-> FALSE, entries |-> <<>>] : r \in RootNames}
    \cup UNION {{[rootName |-> r, listable |-> TRUE, entries |-> e] :
                    r \in RootNames, e \in EntriesOf(n)} : n \in 0..MaxEntries}

\* (file_extension, technology_filter) pairs: everything; two enabled
\* presets; a disabled and an unknown preset beside an extension
Filters ==
    {<<ALL_EXTS, <<>> >>,
     <<ALL_EXTS, <<[tech |-> "python", enabled |-> TRUE],
                   [tech |-> "sql", enabled |-> TRUE]>> >>,
     <<<<".", "m", "d">>, <<[tech |-> "go", enabled |-> FALSE],
                            [tech |-> "cobol", enabled |-> TRUE]>> >>}

\* (chatgpt_split, max_tokens) pairs: the defaults; splitting under a small
\* ceiling
Deliveries == {<<FALSE, MAX_TOKENS_PER_CHUNK>>, <<TRUE, RunCeiling>>}

Arguments ==
    {[file_extension |-> f[1], technology_filter |-> f[2],
      subdirectories |-> s, copy_content |-> c] :
        f \in Filters, s \in BOOLEAN, c \in BOOLEAN}

\* the acknowledgment lines typed at the prompt
AckInputs ==
    {<<>>, <<"q">>, <<"Q">>, <<"y">>, <<"Q", "u", "i", "t">>, <<" ", "q">>}

NoFs == [rootName |-> <<>>, listable |-> FALSE, entries |-> <<>>]

NoArgs ==
    [file_extension |-> ALL_EXTS, technology_filter |-> <<>>,
     subdirectories |-> FALSE, copy_content |-> TRUE]

\* everything a run has not touched yet
Untouched ==
    /\ exc = "none"
    /\ tree = <<>>
    /\ listed = {}
    /\ entered = {}
    /\ buffer = <<>>
    /\ mode = "none"
    /\ chunks = <<>>
    /\ idx = 0
    /\ sink = <<>>
    /\ copyCalls = 0
    /\ copyFailed = FALSE
    /\ console = <<>>
    /\ acks = 0
    /\ quitAt = 0

\* a call of files_to_clipboard
Init ==
    /\ fs \in FileSystems
    /\ args \in Arguments
    /\ \E d \in Deliveries : chatgpt_split = d[1] /\ max_tokens = d[2]
    /\ pc = "call"
    /\ text = <<>>
    /\ Untouched

\* a call of _split_text alone
SplitInit ==
    /\ fs = NoFs
    /\ args = NoArgs
    /\ chatgpt_split = FALSE
    /\ max_tokens \in Ceilings
    /\ pc = "split_text"
    /\ text \in Texts
    /\ Untouched

\* ------------------------------------------------------ files_to_clipboard
DIRECTORY_TREE_OF ==
    <<"D", "i", "r", "e", "c", "t", "o", "r", "y", " ", "t", "r", "e", "e", " ",
      "o", "f", " ">>

FILTERED == <<" ", "(", "f", "i", "l", "t", "e", "r", "e", "d", ")", ":", "\n">>

\* f"Directory tree of {root} (filtered):\n"
tree_header(fs_) == DIRECTORY_TREE_OF \o root_path(fs_) \o FILTERED

seq_range(s) == {s[k] : k \in DOMAIN s}

\* files_to_clipboard up to its first clipboard step: the tree, then either the
\* tree-only payload, or the file bodies, the nothing-to-copy test and the
\* content.  os.listdir raises for a root that cannot be listed; os.walk
\* swallows the same failure, so _generate_tree returns "" there and raises
\* nothing on these filesystems.
files_to_clipboard ==
    /\ pc = "call"
    /\ LET exts     == filter_by_technology(args.file_extension,
                                            args.technology_filter)
           excludes == filter_directories(args.technology_filter)
           tree_    == generate_tree(fs, excludes)
           events   == IF args.subdirectories
                       THEN read_all(fs, walk_dirs(fs, excludes), exts)
                       ELSE read_files_into_buffer(fs, 0, exts, <<".", "/">>)
           buffer_  == SelectSeq(events, LAMBDA e : e.kind = "read")
           printed  == [k \in 1..Len(events) |->
                           [kind |-> events[k].kind, node |-> events[k].node]]
       IN  /\ tree' = tree_
           /\ listed' = {l.node : l \in seq_range(generate_tree_lines(fs, excludes))}
           /\ entered' = seq_range(walk_dirs(fs, excludes))
           /\ IF ~args.copy_content
              THEN /\ text' = tree_header(fs) \o tree_
                   /\ pc' = "commit_tree"
                   /\ UNCHANGED <<buffer, console, exc>>
              ELSE IF ~args.subdirectories /\ ~fs.listable
              THEN /\ pc' = "raised"
                   /\ exc' = "OSError"
                   /\ UNCHANGED <<buffer, console, text>>
              ELSE /\ buffer' = buffer_
                   /\ exc' = exc
                   /\ IF buffer_ = <<>> /\ tree_ = <<>>
                      THEN /\ console' = printed \o <<[kind |-> "nothing_to_copy"]>>
                           /\ pc' = "done"
                           /\ text' = text
                      ELSE /\ console' = printed
                           /\ text' = (IF args.subdirectories
                                       THEN tree_header(fs) \o tree_ \o <<"\n", "\n">>
                                       ELSE <<>>)
                                      \o join(texts_of(buffer_))
                           /\ pc' = "split_or_copy"
    /\ UNCHANGED <<fs, args, chatgpt_split, max_tokens, mode, chunks, idx, sink, copyCalls,
                   copyFailed, acks, quitAt>>

\* ---------------------------------------------------- _commit_to_clipboard
\* a plausible slip: the handler prints the failure and forgets to re-raise
commit_to_clipboard_swallow(data, ok) ==
    [sink    |-> IF ok THEN Append(sink, data) ELSE sink,
     console |-> IF ok THEN console
                 ELSE Append(console, [kind |-> "clipboard_failure"]),
     raised  |-> FALSE]

\* _commit_to_clipboard(data): pyperclip.copy accepts the text (ok), or raises;
\* the failure is printed and raised again
commit_to_clipboard(data, ok) ==
    [sink    |-> IF ok THEN Append(sink, data) ELSE sink,
     console |-> IF ok THEN console
                 ELSE Append(console, [kind |-> "clipboard_failure"]),
     raised  |-> ~ok]

\* the clipboard failure leaves files_to_clipboard
Raise(r) ==
    /\ sink' = r.sink
    /\ console' = r.console
    /\ pc' = "raised"
    /\ exc' = "ClipboardError"

\* the tree-only payload: commit, then the summary
commit_tree ==
    /\ pc = "commit_tree"
    /\ \E ok \in BOOLEAN :
           LET r == commit_to_clipboard(text, ok)
           IN  /\ copyCalls' = copyCalls + 1
               /\ copyFailed' = (copyFailed \/ ~ok)
               /\ IF r.raised THEN Raise(r)
                  ELSE /\ sink' = r.sink
                       /\ console' = Append(r.console,
                                            [kind  |-> "tree_copied",
                                             lines |-> line_count(text)])
                       /\ pc' = "done"
                       /\ exc' = exc
    /\ UNCHANGED <<fs, args, chatgpt_split, max_tokens, tree, listed, entered, buffer, text,
                   mode, chunks, idx, acks, quitAt>>

\* ----------------------------------------------------------- _split_or_copy
\* _split_or_copy up to its first clipboard step: the choice between split
\* delivery and one copy, the split and its summary line.  With no chunk at
\* all the loop ends at once and its else branch reports completion.
split_or_copy ==
    /\ pc = "split_or_copy"
    /\ LET do_split     == chatgpt_split \/ CHATGPT_SPLIT_GLOBAL
           total_tokens == count_tokens(text)
           total_lines  == line_count(text)
           chunks_      == split_text(text, max_tokens)
           summary      == [kind |-> "split_summary", lines |-> total_lines,
                            tokens |-> total_tokens, parts |-> Len(chunks_)]
       IN  IF do_split /\ total_tokens > max_tokens
           THEN /\ mode' = "split"
                /\ chunks' = chunks_
                /\ IF chunks_ = <<>>
                   THEN /\ idx' = idx
                        /\ console' = console
                                \o <<summary, [kind |-> "all_chunks_copied"]>>
                        /\ pc' = "done"
                   ELSE /\ idx' = 1
                        /\ console' = Append(console, summary)
                        /\ pc' = "commit_chunk"
           ELSE /\ mode' = "whole"
                /\ pc' = "commit_whole"
                /\ UNCHANGED <<chunks, idx, console>>
    /\ UNCHANGED <<fs, args, chatgpt_split, max_tokens, exc, tree, listed, entered, buffer,
                   text, sink, copyCalls, copyFailed, acks, quitAt>>

\* the else branch: one copy of the whole text, then the summary
commit_whole ==
    /\ pc = "commit_whole"
    /\ \E ok \in BOOLEAN :
           LET r == commit_to_clipboard(text, ok)
           IN  /\ copyCalls' = copyCalls + 1
               /\ copyFailed' = (copyFailed \/ ~ok)
               /\ IF r.raised THEN Raise(r)
                  ELSE /\ sink' = r.sink
                       /\ console' = Append(r.console,
                                            [kind   |-> "copied",
                                             lines  |-> line_count(text),
                                             tokens |-> count_tokens(text)])
                       /\ pc' = "done"
                       /\ exc' = exc
    /\ UNCHANGED <<fs, args, chatgpt_split, max_tokens, tree, listed, entered, buffer, text,
                   mode, chunks, idx, acks, quitAt>>

\* the loop body up to input(): chunk idx goes to the clipboard
commit_chunk ==
    /\ pc = "commit_chunk"
    /\ \E ok \in BOOLEAN :
           LET r == commit_to_clipboard(chunks[idx], ok)
           IN  /\ copyCalls' = copyCalls + 1
               /\ copyFailed' = (copyFailed \/ ~ok)
               /\ IF r.raised THEN Raise(r)
                  ELSE /\ sink' = r.sink
                       /\ console' = r.console
                       /\ pc' = "input"
                       /\ exc' = exc
    /\ UNCHANGED <<fs, args, chatgpt_split, max_tokens, tree, listed, entered, buffer, text,
                   mode, chunks, idx, acks, quitAt>>

\* str.lower on the characters an acknowledgment can hold
lower_char(c) == CASE c = "Q" -> "q" [] OTHER -> c

lower(s) == [k \in 1..Len(s) |-> lower_char(s[k])]

\* s.startswith(prefix)
startswith(s, prefix) ==
    Len(prefix) <= Len(s) /\ SubSeq(s, 1, Len(prefix)) = prefix

\* a plausible slip: the case is not folded, only a small q cancels
is_quit_case_sensitive(ack) == startswith(ack, <<"q">>)

\* input(...).lower().startswith("q")
is_quit(ack) == startswith(lower(ack), <<"q">>)

\* the acknowledgment as typed begins with q or Q
BeginsWithQ(ack) == ack # <<>> /\ ack[1] \in {"q", "Q"}

\* the prompt for chunk idx
prompt ==
    [kind |-> "prompt", idx |-> idx, parts |-> Len(chunks),
     lines |-> line_count(chunks[idx]), tokens |-> count_tokens(chunks[idx]),
     hint |-> idx # Len(chunks)]

\* a plausible slip: the completion line sits after the loop instead of in
\* its else branch, so it is printed after a break as well
loop_step_no_else(ack) ==
    IF is_quit(ack) \/ idx = Len(chunks)
    THEN [pc |-> "done", idx |-> idx, completed |-> TRUE]
    ELSE [pc |-> "commit_chunk", idx |-> idx + 1, completed |-> FALSE]

\* the rest of the loop body once input() has returned ack: break on a quit,
\* the else branch after the last chunk, the next chunk otherwise
loop_step(ack) ==
    IF is_quit(ack)
    THEN [pc |-> "done", idx |-> idx, completed |-> FALSE]
    ELSE IF idx = Len(chunks)
    THEN [pc |-> "done", idx |-> idx, completed |-> TRUE]
    ELSE [pc |-> "commit_chunk", idx |-> idx + 1, completed |-> FALSE]

\* input() prints the prompt and returns a line
input_line ==
    /\ pc = "input"
    /\ \E ack \in AckInputs :
           LET step == loop_step(ack)
           IN  /\ acks' = acks + 1
               /\ quitAt' = IF quitAt = 0 /\ BeginsWithQ(ack)
                            THEN acks + 1 ELSE quitAt
               /\ idx' = step.idx
               /\ pc' = step.pc
               /\ console' = console \o <<prompt>>
                      \o (IF step.completed
                          THEN <<[kind |-> "all_chunks_copied"]>> ELSE <<>>)
    /\ UNCHANGED <<fs, args, chatgpt_split, max_tokens, exc, tree, listed, entered, buffer,
                   text, mode, chunks, sink, copyCalls, copyFailed>>

\* input() prints the prompt and meets the end of the input: EOFError
input_eof ==
    /\ pc = "input"
    /\ console' = Append(console, prompt)
    /\ pc' = "raised"
    /\ exc' = "EOFError"
    /\ UNCHANGED <<fs, args, chatgpt_split, max_tokens, tree, listed, entered, buffer, text,
                   mode, chunks, idx, sink, copyCalls, copyFailed, acks, quitAt>>

\* ------------------------------------------------------------- _split_text
\* a call of _split_text(text, max_tokens) on its own
split_text_call ==
    /\ pc = "split_text"
    /\ chunks' = split_text(text, max_tokens)
    /\ pc' = "returned"
    /\ UNCHANGED <<fs, args, chatgpt_split, max_tokens, exc, tree, listed, entered, buffer,
                   text, mode, idx, sink, copyCalls, copyFailed, console, acks,
                   quitAt>>

\* ----------------------------------------------------------- specifications
Next ==
    \/ files_to_clipboard
    \/ commit_tree
    \/ split_or_copy
    \/ commit_whole
    \/ commit_chunk
    \/ input_line
    \/ input_eof

Spec == Init /\ [][Next]_vars

SplitNext == split_text_call

SplitSpec == SplitInit /\ [][SplitNext]_vars

\* ================================================================== claims
\* the lines of all chunks, in order
RECURSIVE lines_of_all(_)
lines_of_all(cs) ==
    IF cs = <<>> THEN <<>> ELSE splitlines(Head(cs)) \o lines_of_all(Tail(cs))

\* the sum of the per-line token counts of a chunk
RECURSIVE sum_tokens(_)
sum_tokens(ls) ==
    IF ls = <<>> THEN 0 ELSE count_tokens(Head(ls)) + sum_tokens(Tail(ls))

LineTokens(chunk) == sum_tokens(splitlines(chunk))

\* C1: the chunks _split_text returns, concatenated in order, are the text
\* itself; their lines are the lines of the text, in order, each once; no
\* chunk is empty.
C1_RoundTrip ==
    pc = "returned" =>
        /\ join(chunks) = text
        /\ lines_of_all(chunks) = splitlines(text)
        /\ \A k \in DOMAIN chunks : chunks[k] # <<>>

\* a text with a "\r\n" boundary split into three chunks or more
C1_Witness ==
    /\ pc = "returned"
    /\ Len(chunks) >= 3
    /\ \E i \in 1..(Len(text) - 1) : text[i] = "\r" /\ text[i + 1] = "\n"

\* C2: every returned chunk of more than one line has an estimated token
\* count, taken over the chunk as a whole, of at most max_tokens.
C2_ChunkBound ==
    pc = "returned" =>
        \A k \in DOMAIN chunks :
            Len(splitlines(chunks[k])) > 1 => count_tokens(chunks[k]) <= max_tokens

\* C9: between two consecutive chunks the earlier one's per-line tokens plus
\* the first line of the later one exceed max_tokens, and the per-line tokens
\* of a chunk of more than one line sum to at most max_tokens.
C9_Greedy ==
    pc = "returned" =>
        /\ \A k \in 1..(Len(chunks) - 1) :
               LineTokens(chunks[k])
                   + count_tokens(Head(splitlines(chunks[k + 1]))) > max_tokens
        /\ \A k \in DOMAIN chunks :
               Len(splitlines(chunks[k])) > 1 => LineTokens(chunks[k]) <= max_tokens

\* two chunks or more, one of them of several lines that carry tokens
C9_Witness ==
    /\ pc = "returned"
    /\ Len(chunks) >= 2
    /\ \E k \in DOMAIN chunks :
           Len(splitlines(chunks[k])) > 1 /\ LineTokens(chunks[k]) >= 1

\* C3: in split delivery the sink holds the chunks in order, chunk k + 1 is
\* there only once k acknowledgments were read, and nothing is written after
\* the first acknowledgment that began with q or Q.
C3_OrderedDelivery ==
    mode = "split" =>
        /\ Len(sink) <= Len(chunks)
        /\ \A k \in 1..Len(sink) : sink[k] = chunks[k]
        /\ Len(sink) <= acks + 1
        /\ quitAt > 0 => Len(sink) <= quitAt

\* a delivery cancelled at the second of three or more chunks
C3_Witness ==
    /\ mode = "split"
    /\ pc = "done"
    /\ Len(chunks) >= 3
    /\ quitAt = 2
    /\ Len(sink) = 2

SuccessKinds == {"copied", "all_chunks_copied", "tree_copied"}

NothingReported == \E k \in DOMAIN console : console[k].kind = "nothing_to_copy"

\* C5: a finished run whose tree string is empty and that produced no file
\* record has reported "nothing to copy" and has not written to the sink.
C5_NothingToCopy ==
    (pc = "done" /\ tree = <<>> /\ buffer = <<>>) =>
        /\ NothingReported
        /\ copyCalls = 0
        /\ sink = <<>>

\* the names the run ignores
Excludes == filter_directories(args.technology_filter)

Nodes == 0..Len(fs.entries)

IsDir(i) == i = 0 \/ fs.entries[i].kind = "dir"

\* the directories above node i, the scan root included
RECURSIVE Ancestors(_)
Ancestors(i) ==
    IF i = 0 THEN {}
    ELSE {fs.entries[i].parent} \cup Ancestors(fs.entries[i].parent)

ReadNodes == {buffer[k].node : k \in DOMAIN buffer}

CompletionReported ==
    \E k \in DOMAIN console : console[k].kind = "all_chunks_copied"

\* C7 as stated: a finished split delivery has reported completion if every
\* chunk was written and no cancellation came before the last chunk was
\* sent; completion is reported only with every chunk written.
C7_CompletionUnlessCancelledEarlier ==
    (mode = "split" /\ pc = "done") =>
        /\ (sink = chunks /\ (quitAt = 0 \/ quitAt >= Len(chunks)))
               => CompletionReported
        /\ CompletionReported => sink = chunks

\* C7, amended: in split delivery completion is reported exactly when every
\* chunk was written and after each of them, the last included, an
\* acknowledgment that did not begin with q or Q was read.
C7_Completion ==
    mode = "split" =>
        (CompletionReported <=>
            (sink = chunks /\ acks = Len(chunks) /\ quitAt = 0))

\* a delivery of three or more chunks that reported completion
C7_Witness ==
    /\ mode = "split"
    /\ Len(chunks) >= 3
    /\ CompletionReported

\* the number of newline characters of a text
RECURSIVE Newlines(_)
Newlines(data) ==
    IF data = <<>> THEN 0
    ELSE (IF Head(data) = "\n" THEN 1 ELSE 0) + Newlines(Tail(data))

\* the label of the directory of a read file
LabelOf(i) ==
    IF args.subdirectories THEN relative_label(fs, fs.entries[i].parent)
    ELSE <<".", "/">>

\* the record of file i with line count n
RecordText(i, n) ==
    LabelOf(i) \o fs.entries[i].name \o <<" ", "(">> \o str_int(n)
        \o <<" ", "l", "i", "n", "e", "s", ")", "\n">>
        \o fs.entries[i].data \o <<"\n", "\n">>

\* C8 as stated: the line count of a record is 0 for an empty file and the
\* number of newlines plus one otherwise.
C8_LineCountZeroWhenEmpty ==
    \A k \in DOMAIN buffer :
        LET data == fs.entries[buffer[k].node].data
            n    == IF data = <<>> THEN 0 ELSE Newlines(data) + 1
        IN  buffer[k].lines = n /\ buffer[k].text = RecordText(buffer[k].node, n)

\* C8, amended: the line count of a record is the number of newlines plus
\* one, for an empty file too (1).
C8_LineCount ==
    \A k \in DOMAIN buffer :
        LET n == Newlines(fs.entries[buffer[k].node].data) + 1
        IN  buffer[k].lines = n /\ buffer[k].text = RecordText(buffer[k].node, n)

\* a run that read an empty file and a file of two lines
C8_Witness ==
    /\ \E k \in DOMAIN buffer : fs.entries[buffer[k].node].data = <<>>
    /\ \E k \in DOMAIN buffer : Newlines(fs.entries[buffer[k].node].data) = 1

\* C10: with copy_content every text written to the sink is non-empty.
C10_NonEmptyWrites ==
    args.copy_content => \A k \in DOMAIN sink : sink[k] # <<>>

====
